---- MODULE Spec2Model ----
(***************************************************************************)
(* A model of the geohash library: BinaryHash (src/src/geohash.rs), the    *)
(* base32 codec and the neighbor resolver, over BoundingBox and            *)
(* GeoLocation.                                                            *)
(*                                                                         *)
(* Numbers.  Coordinates are f64 degrees in the code.  The model measures  *)
(* them in grid units: 90 degrees are LAT_MAX = 2^GridBits units and 180   *)
(* degrees are LON_MAX = 2 * LAT_MAX units.  Every bound the bisection     *)
(* produces within 60 steps is a multiple of a power of two that f64       *)
(* represents exactly, so the f64 operations +, -, /2.0 and the            *)
(* comparisons are exact there, and integer arithmetic on the grid is the  *)
(* same arithmetic.  GridBits is chosen so that every midpoint and every   *)
(* cell centre taken within the steps the model makes is an integer.       *)
(* The bounds given to the BoundingBox constructors are finite numbers;    *)
(* min, max and the comparisons are exact on them.  NaN is a value of its  *)
(* own, met only as an argument of GeoLocation::from_coordinates.          *)
(*                                                                         *)
(* Characters are their code points (48 is '0', 122 is 'z'), strings are   *)
(* sequences of code points.  A u64 is the set of the positions (0 is the  *)
(* least significant) of its one bits.                                     *)
(***************************************************************************)
EXTENDS Integers, Sequences, FiniteSets, TLC

VARIABLES bh, pushed, call, box1

vars == <<bh, pushed, call, box1>>

----------------------------------------------------------------------------
(* Bounds of the model *)

Abs(x) == IF x < 0 THEN -x ELSE x

Min(a, b) == IF a <= b THEN a ELSE b

Max(a, b) == IF a >= b THEN a ELSE b

\* Longest base32 hash, in characters.
MaxChars == 2

\* Most one bits among the bits pushed onto a BinaryHash.
MaxOnes == 1

\* Longest string over SampleChars given to from_string and decode_string.
MaxShort == 4

\* Largest precision, in bits, given to BinaryHash::encode.
MaxPrecision == 10

\* Largest magnitude of the bounds given to the BoundingBox constructors.
MaxCoord == 1

\* Width of BinaryHash::bits (u64).
WORD_BITS == 64

\* Bisection steps of the longest base32 hash: 5 per character.
MaxBits == 5 * MaxChars

\* Pushes onto one BinaryHash: up to two more than the word holds.
MaxPushes == WORD_BITS + 2

\* The grid is fine enough for MaxBits and for MaxPrecision bisection steps.
GridBits == (Max(MaxBits, MaxPrecision) + 1) \div 2

\* 90.0 and 180.0 degrees, in grid units.
LAT_MAX == 2 ^ GridBits

LON_MAX == 2 * LAT_MAX

----------------------------------------------------------------------------
(* GeoLocation and BoundingBox *)

\* The struct literal GeoLocation{latitude, longitude}: no validation.
GeoLocation(lat, lon) == [latitude |-> lat, longitude |-> lon]

\* The f64 that is not a number, which a caller can pass for a coordinate.
\* The model writes it as an integer far from every coordinate it handles;
\* no arithmetic is done on it.
NaN == -(2 ^ 30)

\* f64::abs: the absolute value, NaN for NaN.
f64_abs(x) == IF x = NaN THEN NaN ELSE Abs(x)

\* The f64 comparison a <= b: false when a or b is NaN.
f64_le(a, b) == a # NaN /\ b # NaN /\ a <= b

\* A faulty validation: the boundary values +/-90 and +/-180 are rejected.
GeoLocation_valid_strict(lat, lon) ==
    /\ f64_le(f64_abs(lat), LAT_MAX - 1)
    /\ f64_le(f64_abs(lon), LON_MAX - 1)

\* The two assertions of GeoLocation::from_coordinates:
\* latitude.abs() <= 90.0 and longitude.abs() <= 180.0.
GeoLocation_valid(lat, lon) ==
    /\ f64_le(f64_abs(lat), LAT_MAX)
    /\ f64_le(f64_abs(lon), LON_MAX)

\* GeoLocation::from_coordinates: panics unless both assertions hold.
GeoLocation_from_coordinates(lat, lon) ==
    IF GeoLocation_valid(lat, lon)
    THEN [ok |-> TRUE, l |-> GeoLocation(lat, lon)]
    ELSE [ok |-> FALSE]

\* BoundingBox::new(): the four bounds 0.0.
BoundingBox_new ==
    [min_lat |-> 0, max_lat |-> 0, min_lon |-> 0, max_lon |-> 0]

\* A faulty from_coordinates: the arguments stored in the order given.
BoundingBox_from_coordinates_as_given(minlat, maxlat, minlon, maxlon) ==
    [min_lat |-> minlat, max_lat |-> maxlat,
     min_lon |-> minlon, max_lon |-> maxlon]

BoundingBox_from_coordinates(minlat, maxlat, minlon, maxlon) ==
    [min_lat |-> Min(minlat, maxlat), max_lat |-> Max(minlat, maxlat),
     min_lon |-> Min(minlon, maxlon), max_lon |-> Max(minlon, maxlon)]

from_geolocations(p1, p2) ==
    [min_lat |-> Min(p1.latitude, p2.latitude),
     max_lat |-> Max(p1.latitude, p2.latitude),
     min_lon |-> Min(p1.longitude, p2.longitude),
     max_lon |-> Max(p1.longitude, p2.longitude)]

merged(one, other) ==
    [min_lat |-> Min(one.min_lat, other.min_lat),
     max_lat |-> Max(one.max_lat, other.max_lat),
     min_lon |-> Min(one.min_lon, other.min_lon),
     max_lon |-> Max(one.max_lon, other.max_lon)]

\* A faulty merge_with: the maximum bounds are left as they are.
merge_with_minimums_only(self, other) ==
    [self EXCEPT !.min_lat = Min(self.min_lat, other.min_lat),
                 !.min_lon = Min(self.min_lon, other.min_lon)]

\* merge_with: four assignments to the fields of self, each under its own
\* comparison, in the order min_lat, min_lon, max_lat, max_lon.
merge_with(self, other) ==
    LET s1 == IF other.min_lat < self.min_lat
              THEN [self EXCEPT !.min_lat = other.min_lat] ELSE self
        s2 == IF other.min_lon < s1.min_lon
              THEN [s1 EXCEPT !.min_lon = other.min_lon] ELSE s1
        s3 == IF other.max_lat > s2.max_lat
              THEN [s2 EXCEPT !.max_lat = other.max_lat] ELSE s2
    IN  IF other.max_lon > s3.max_lon
        THEN [s3 EXCEPT !.max_lon = other.max_lon] ELSE s3

\* The box every encode and decode starts from.
WorldBox == BoundingBox_from_coordinates(-LAT_MAX, LAT_MAX, -LON_MAX, LON_MAX)

\* x / 2.0, exact on the grid.
Half(x) == x \div 2

\* A faulty center: the bottom left corner.
center_bottom_left(b) == GeoLocation(b.min_lat, b.min_lon)

center(b) ==
    GeoLocation(Half(b.min_lat + b.max_lat), Half(b.min_lon + b.max_lon))

\* A faulty latitude_range: the latitude error, half the range.
latitude_range_halved(b) == Half(b.max_lat - b.min_lat)

latitude_range(b) == b.max_lat - b.min_lat

longitude_range(b) == b.max_lon - b.min_lon

\* A faulty contains: the maximum bounds are exclusive.
contains_below_maximum(b, p) ==
    /\ p.latitude >= b.min_lat
    /\ p.latitude < b.max_lat
    /\ p.longitude >= b.min_lon
    /\ p.longitude < b.max_lon

contains(b, p) ==
    /\ p.latitude >= b.min_lat
    /\ p.latitude <= b.max_lat
    /\ p.longitude >= b.min_lon
    /\ p.longitude <= b.max_lon

----------------------------------------------------------------------------
(* BinaryHash *)

BinaryHash_new == [bits |-> {}, precision |-> 0]

\* A faulty push: the new bit is stored above the bits held, not below.
push_at_front(h, b) ==
    [bits |-> h.bits \cup (IF b /\ h.precision < WORD_BITS
                            THEN {h.precision} ELSE {}),
     precision |-> h.precision + 1]

\* A faulty push: the shift of bits is forgotten.
push_shift_forgotten(h, b) ==
    [bits |-> h.bits \cup (IF b THEN {0} ELSE {}),
     precision |-> h.precision + 1]

\* bits <<= 1 drops the bit shifted out of the word; bits |= b; precision += 1
\* (a u8; the model stops pushing long before 255).
push(h, b) ==
    [bits |-> {i + 1 : i \in {j \in h.bits : j + 1 < WORD_BITS}}
              \cup (IF b THEN {0} ELSE {}),
     precision |-> h.precision + 1]

len(h) == h.precision

empty(h) == h.precision = 0

\* The shift amount precision-n-1 of test, a u8.
test_shift(h, n) == h.precision - n - 1

\* test panics in a build with overflow checks when the u8 subtraction
\* underflows or the shift amount is not below the width of the word.
test_panics(h, n, checks) ==
    checks /\ (test_shift(h, n) < 0 \/ test_shift(h, n) >= WORD_BITS)

\* A faulty test: position n counted from the least significant bit.
test_lsb_first(h, n) == n \in h.bits

\* (bits & (1u64 << (precision-n-1))) != 0; without overflow checks the
\* subtraction wraps in u8 and the shift amount is taken modulo the width.
test(h, n) == ((test_shift(h, n) % 256) % WORD_BITS) \in h.bits

\* A faulty iteration: any character other than '1' is taken for '0'.
from_string_step_lenient(output, c) ==
    IF ~output.ok THEN [ok |-> FALSE]
    ELSE IF c = 49 THEN [ok |-> TRUE, bh |-> push(output.bh, TRUE)]
    ELSE [ok |-> TRUE, bh |-> push(output.bh, FALSE)]

\* One iteration of the loop of from_string on the character c: a push for
\* '0' and for '1', a panic for any other character.
from_string_step(output, c) ==
    IF ~output.ok THEN [ok |-> FALSE]
    ELSE IF c = 48 THEN [ok |-> TRUE, bh |-> push(output.bh, FALSE)]
    ELSE IF c = 49 THEN [ok |-> TRUE, bh |-> push(output.bh, TRUE)]
    ELSE [ok |-> FALSE]

\* The iterations of from_string on the characters lo..hi of s, in order:
\* those of the first half, then those of the second half (the loop of the
\* code, split in halves to keep the evaluation shallow).
RECURSIVE from_string_loop(_, _, _, _)
from_string_loop(output, s, lo, hi) ==
    IF lo > hi THEN output
    ELSE IF lo = hi THEN from_string_step(output, s[lo])
    ELSE LET mid == (lo + hi) \div 2
             first == from_string_loop(output, s, lo, mid)
         IN  IF first.ok THEN from_string_loop(first, s, mid + 1, hi)
             ELSE [ok |-> FALSE]

from_string(s) ==
    from_string_loop([ok |-> TRUE, bh |-> BinaryHash_new], s, 1, Len(s))

\* A faulty to_string: the bits in the reverse order.
to_string_lsb_first(h, checks) ==
    IF \E n \in 0..(h.precision - 1) : test_panics(h, n, checks)
    THEN [ok |-> FALSE]
    ELSE [ok |-> TRUE,
          s |-> [i \in 1..h.precision |->
                    IF test(h, h.precision - i) THEN 49 ELSE 48]]

\* to_string: '1' or '0' for test(n), n from 0 to precision-1; the panic of
\* a test is the panic of to_string.
to_string(h, checks) ==
    IF \E n \in 0..(h.precision - 1) : test_panics(h, n, checks)
    THEN [ok |-> FALSE]
    ELSE [ok |-> TRUE,
          s |-> [i \in 1..h.precision |-> IF test(h, i - 1) THEN 49 ELSE 48]]

\* A faulty bisection step: the bounds moved are exchanged.
narrow_wrong_side(b, islon, bit) ==
    IF islon
    THEN LET mid == Half(b.max_lon + b.min_lon)
         IN  IF bit THEN [b EXCEPT !.max_lon = mid]
             ELSE [b EXCEPT !.min_lon = mid]
    ELSE LET mid == Half(b.max_lat + b.min_lat)
         IN  IF bit THEN [b EXCEPT !.max_lat = mid]
             ELSE [b EXCEPT !.min_lat = mid]

\* One bisection step of a box on the longitude (islon) or latitude axis:
\* the lower bound moves up to the midpoint when bit, the upper bound down
\* to it otherwise.
narrow(b, islon, bit) ==
    IF islon
    THEN LET mid == Half(b.max_lon + b.min_lon)
         IN  IF bit THEN [b EXCEPT !.min_lon = mid]
             ELSE [b EXCEPT !.max_lon = mid]
    ELSE LET mid == Half(b.max_lat + b.min_lat)
         IN  IF bit THEN [b EXCEPT !.min_lat = mid]
             ELSE [b EXCEPT !.max_lat = mid]

\* The comparison of encode: the coordinate of l on the axis against the
\* midpoint of the box on that axis, strictly greater.
above_mid(l, b, islon) ==
    IF islon THEN l.longitude > Half(b.max_lon + b.min_lon)
    ELSE l.latitude > Half(b.max_lat + b.min_lat)

\* BinaryHash::encode: bisect, longitude first, until precision bits.
RECURSIVE BinaryHash_encode_loop(_, _, _, _, _)
BinaryHash_encode_loop(l, precision, bbox, islon, output) ==
    IF ~(len(output) < precision) THEN output
    ELSE LET bit == above_mid(l, bbox, islon)
         IN  BinaryHash_encode_loop(l, precision, narrow(bbox, islon, bit),
                                    ~islon, push(output, bit))

BinaryHash_encode(l, precision) ==
    BinaryHash_encode_loop(l, precision, WorldBox, TRUE, BinaryHash_new)

\* BinaryHash::decode: replay the bits test(0), test(1), ... on the world box.
RECURSIVE BinaryHash_decode_loop(_, _, _, _, _)
BinaryHash_decode_loop(h, n, output, islon, checks) ==
    IF n >= h.precision THEN [ok |-> TRUE, box |-> output]
    ELSE IF test_panics(h, n, checks) THEN [ok |-> FALSE]
    ELSE BinaryHash_decode_loop(h, n + 1, narrow(output, islon, test(h, n)),
                                ~islon, checks)

BinaryHash_decode(h, checks) ==
    BinaryHash_decode_loop(h, 0, WorldBox, TRUE, checks)

\* decode_string: from_string(s).decode().
decode_string(s, checks) ==
    LET r == from_string(s)
    IN  IF r.ok THEN BinaryHash_decode(r.bh, checks) ELSE [ok |-> FALSE]

----------------------------------------------------------------------------
(* The base32 codec *)

BASE32_CODES ==
    << 48,  49,  50,  51,  52,  53,  54,  55,
       56,  57,  98,  99, 100, 101, 102, 103,
      104, 106, 107, 109, 110, 112, 113, 114,
      115, 116, 117, 118, 119, 120, 121, 122 >>

\* A faulty table: the uppercase letters are invalid codes.
BASE32_INDICES_lowercase_only ==
    [c \in 1..75 |->
        IF \E i \in 1..32 : BASE32_CODES[i] = c + 47
        THEN (CHOOSE i \in 1..32 : BASE32_CODES[i] = c + 47) - 1
        ELSE 255]

\* Indexed by the character code minus 48; 255 is the 0xFF of an invalid code.
BASE32_INDICES ==
    <<   0,   1,   2,   3,   4,   5,   6,   7,
         8,   9, 255, 255, 255, 255, 255, 255,
       255, 255,  10,  11,  12,  13,  14,  15,
        16, 255,  17,  18, 255,  19,  20, 255,
        21,  22,  23,  24,  25,  26,  27,  28,
        29,  30,  31, 255, 255, 255, 255, 255,
       255, 255,  10,  11,  12,  13,  14,  15,
        16, 255,  17,  18, 255,  19,  20, 255,
        21,  22,  23,  24,  25,  26,  27,  28,
        29,  30,  31 >>

\* encode: the bisection of BinaryHash::encode, the bits gathered five at a
\* time into hash_index, one character of BASE32_CODES per five bits.
RECURSIVE encode_loop(_, _, _, _, _, _, _)
encode_loop(l, precision, bbox, islon, num_bits, hash_index, output) ==
    IF ~(Len(output) < precision) THEN output
    ELSE LET bit == above_mid(l, bbox, islon)
             index == hash_index * 2 + (IF bit THEN 1 ELSE 0)
             full == (num_bits + 1) % 5 = 0
         IN  encode_loop(l, precision, narrow(bbox, islon, bit), ~islon,
                         num_bits + 1,
                         IF full THEN 0 ELSE index,
                         IF full THEN Append(output, BASE32_CODES[index + 1])
                         ELSE output)

\* A faulty encode: the bisection starts with the latitude.
encode_latitude_first(l, precision) ==
    encode_loop(l, precision, WorldBox, FALSE, 0, 0, <<>>)

encode(l, precision) == encode_loop(l, precision, WorldBox, TRUE, 0, 0, <<>>)

\* A faulty bit_of: the five bits of a character read in the reverse order.
bit_of_lsb_first(char_index, bits) ==
    (char_index \div (2 ^ (4 - bits))) % 2 = 1

\* (char_index >> bits) & 1
bit_of(char_index, bits) == (char_index \div (2 ^ bits)) % 2 = 1

\* The five bisection steps of one character, bits from 4 down to 0.
RECURSIVE decode_char(_, _, _, _)
decode_char(char_index, bits, output, islon) ==
    IF bits < 0 THEN output
    ELSE decode_char(char_index, bits - 1,
                     narrow(output, islon, bit_of(char_index, bits)), ~islon)

\* A faulty second assertion: the sentinel 0xFF passes.
index_valid_accepts_sentinel(char_index) == char_index <= 255

\* The second assertion of decode: char_index < 32.
index_valid(char_index) == char_index < 32

\* The first assertion of decode: c >= '0' && c <= 'z'.
char_in_range(c) == c >= 48 /\ c <= 122

\* decode: per character the two assertions, then five bisection steps; five
\* steps flip islon, so it alternates from character to character.
RECURSIVE decode_loop(_, _, _, _)
decode_loop(hash, i, output, islon) ==
    IF i > Len(hash) THEN [ok |-> TRUE, box |-> output]
    ELSE IF ~char_in_range(hash[i]) THEN [ok |-> FALSE]
    ELSE LET char_index == BASE32_INDICES[hash[i] - 48 + 1]
         IN  IF ~index_valid(char_index) THEN [ok |-> FALSE]
             ELSE decode_loop(hash, i + 1,
                              decode_char(char_index, 4, output, islon),
                              ~islon)

decode(hash) == decode_loop(hash, 1, WorldBox, TRUE)

----------------------------------------------------------------------------
(* The neighbor resolver *)

\* neighbor: decode, shift the centre by direction times the ranges, validate
\* the shifted point (GeoLocation::from_coordinates), encode it with as many
\* characters as hash has.
neighbor(hash, direction) ==
    LET r == decode(hash)
    IN  IF ~r.ok THEN [ok |-> FALSE]
        ELSE LET b == r.box
                 cp == center(b)
                 gl == GeoLocation_from_coordinates(
                           cp.latitude + latitude_range(b) * direction[1],
                           cp.longitude + longitude_range(b) * direction[2])
             IN  IF ~gl.ok THEN [ok |-> FALSE]
                 ELSE [ok |-> TRUE, hash |-> encode(gl.l, Len(hash))]

\* A faulty order of the directions: column by column.
neighbors_directions_by_column ==
    << <<-1, -1>>, <<0, -1>>, <<1, -1>>, <<-1, 0>>,
       <<1, 0>>, <<-1, 1>>, <<0, 1>>, <<1, 1>> >>

\* The eight directions (d_lat, d_lon) in the order neighbors lists them.
neighbors_directions ==
    << <<-1, -1>>, <<-1, 0>>, <<-1, 1>>, <<0, -1>>,
       <<0, 1>>, <<1, -1>>, <<1, 0>>, <<1, 1>> >>

\* neighbors: hash itself, then the eight neighbor calls; any panic among
\* them is the panic of neighbors.
neighbors(hash) ==
    LET ns == [i \in 1..8 |-> neighbor(hash, neighbors_directions[i])]
    IN  IF \E i \in 1..8 : ~ns[i].ok THEN [ok |-> FALSE]
        ELSE [ok |-> TRUE,
              list |-> <<hash>> \o [i \in 1..8 |-> ns[i].hash]]

----------------------------------------------------------------------------
(* Inputs *)

\* Coordinates on an axis whose bounds are -H and H: the bounds, the
\* midpoints 0 and +/-2^j the bisection meets on its way towards 0, and the
\* grid points next to each of them.
AxisSamples(H) ==
    {x \in -H..H : \E j \in 0..(GridBits + 1) : Abs(Abs(x) - 2 ^ j) <= 1}

\* Valid locations: |latitude| <= 90, |longitude| <= 180.
Locations ==
    {GeoLocation(lat, lon) : lat \in AxisSamples(LAT_MAX),
                             lon \in AxisSamples(LON_MAX)}

\* Strings of exactly n characters over the set chars.
StringsOfLen(chars, n) == [1..n -> chars]

StringsUpTo(chars, n) == UNION {StringsOfLen(chars, k) : k \in 0..n}

Alphabet == {BASE32_CODES[i] : i \in 1..32}

\* The uppercase spelling of a letter of the alphabet, a digit unchanged.
Upper(c) == IF c >= 97 THEN c - 32 ELSE c

\* The characters decode accepts: the alphabet in either case.
ValidChars == Alphabet \cup {Upper(c) : c \in Alphabet}

\* Characters for the positions of a hash before its last: the four corner
\* cells '0', 'b', 'p', 'z', the inner cells '7' and 's', and uppercase 'W'.
PrefixChars == {48, 98, 112, 122, 55, 115, 87}

\* Valid hashes of at most MaxChars characters: any valid character in the
\* last position, the characters of PrefixChars before it.
Hashes ==
    {<<>>} \cup
    {Append(s, c) : s \in StringsUpTo(PrefixChars, MaxChars - 1),
                    c \in ValidChars}

\* '0', '1' and two characters from_string rejects: '2' and 'a'.
SampleChars == {48, 49, 50, 97}

ShortStrings == StringsUpTo(SampleChars, MaxShort)

\* The string of n characters '0', the character at position i (if any) '1'.
OneAt(n, i) == [k \in 1..n |-> IF k = i THEN 49 ELSE 48]

\* Strings of '0' with at most one '1', as long as MaxPushes.
LongStrings == {OneAt(n, i) : n \in 0..MaxPushes, i \in 0..MaxPushes}

\* Every ASCII code and three code points beyond ASCII.
AllChars == 0..127 \cup {128, 255, 8364}

\* A valid lowercase, a valid uppercase and an invalid character to fill the
\* other positions of a string given to decode: '0', 'z', 'W', 'a'.
FillChars == {48, 122, 87, 97}

\* Strings of at most MaxChars characters, one of them any character.
DecodeInputs ==
    {<<>>} \cup
    UNION {{[s EXCEPT ![i] = c] : i \in 1..Len(s), c \in AllChars} :
              s \in StringsUpTo(FillChars, MaxChars)}

Directions == {<<dlat, dlon>> : dlat \in {-1, 0, 1}, dlon \in {-1, 0, 1}}

\* Bounds given to the BoundingBox constructors: finite and unvalidated.
BoxCoords == (-MaxCoord)..MaxCoord

\* Coordinates of the points given to contains: one step further out.
PointCoords == (-MaxCoord - 1)..(MaxCoord + 1)

\* Boxes written as struct literals: the four fields in any order.
RawBoxes ==
    {[min_lat |-> a, max_lat |-> b, min_lon |-> c, max_lon |-> d] :
        a \in BoxCoords, b \in BoxCoords, c \in BoxCoords, d \in BoxCoords}

\* The boxes of RawBoxes whose longitude bounds are their latitude bounds
\* exchanged, and those whose longitude bounds are the latitude bounds
\* negated.
ExchangedBoxes ==
    {b \in RawBoxes : b.min_lon = b.max_lat /\ b.max_lon = b.min_lat}

NegatedBoxes ==
    {b \in RawBoxes : b.min_lon = -b.min_lat /\ b.max_lon = -b.max_lat}

\* Coordinates given to GeoLocation::from_coordinates: 0, the bounds
\* +/-90 and +/-180 (in grid units), the grid points next to each, and NaN.
CoordinateInputs ==
    {x + d : x \in {0, LAT_MAX, -LAT_MAX, LON_MAX, -LON_MAX},
             d \in {-1, 0, 1}} \cup {NaN}

----------------------------------------------------------------------------
(* The state machine *)

Init ==
    /\ bh = BinaryHash_new
    /\ pushed = <<>>
    /\ call = [op |-> "idle"]
    /\ box1 = BoundingBox_new

\* One call is observed in a behaviour: the calls start from the idle state.
Idle == call.op = "idle"

Ones(s) == Cardinality({i \in 1..Len(s) : s[i]})

\* bh.push(b) on the hash built so far; pushed records the bits in order.
Push(b) ==
    /\ len(bh) < MaxPushes
    /\ b => Ones(pushed) < MaxOnes
    /\ bh' = push(bh, b)
    /\ pushed' = Append(pushed, b)
    /\ UNCHANGED <<call, box1>>

\* BinaryHash::from_string(s), and to_string() of the hash it returns, in a
\* build with (checks) or without overflow checks.
CallFromString ==
    /\ Idle
    /\ \E s \in ShortStrings \cup LongStrings, checks \in BOOLEAN :
          LET r == from_string(s)
          IN  call' = IF r.ok
                      THEN [op |-> "from_string", s |-> s, checks |-> checks,
                            ok |-> TRUE, bh |-> r.bh,
                            text |-> to_string(r.bh, checks)]
                      ELSE [op |-> "from_string", s |-> s, checks |-> checks,
                            ok |-> FALSE]
    /\ UNCHANGED <<bh, pushed, box1>>

\* BinaryHash::decode_string(s).
CallDecodeString ==
    /\ Idle
    /\ \E s \in ShortStrings, checks \in BOOLEAN :
          LET r == decode_string(s, checks)
          IN  call' = IF r.ok
                      THEN [op |-> "decode_string", s |-> s, ok |-> TRUE,
                            box |-> r.box]
                      ELSE [op |-> "decode_string", s |-> s, ok |-> FALSE]
    /\ UNCHANGED <<bh, pushed, box1>>

\* BinaryHash::encode(l, precision), and decode() of the hash it returns.
CallBinaryEncode ==
    /\ Idle
    /\ \E l \in Locations, precision \in 0..MaxPrecision, checks \in BOOLEAN :
          LET h == BinaryHash_encode(l, precision)
              r == BinaryHash_decode(h, checks)
          IN  call' = [op |-> "BinaryHash::encode", l |-> l,
                       precision |-> precision, bh |-> h, ok |-> r.ok,
                       box |-> IF r.ok THEN r.box ELSE WorldBox]
    /\ UNCHANGED <<bh, pushed, box1>>

\* encode(l, precision), and decode of the hash it returns.
CallEncode ==
    /\ Idle
    /\ \E l \in Locations, precision \in 0..MaxChars :
          LET h == encode(l, precision)
              r == decode(h)
          IN  call' = [op |-> "encode", l |-> l, precision |-> precision,
                       hash |-> h, ok |-> r.ok,
                       box |-> IF r.ok THEN r.box ELSE WorldBox]
    /\ UNCHANGED <<bh, pushed, box1>>

\* decode(hash).
CallDecode ==
    /\ Idle
    /\ \E hash \in DecodeInputs :
          LET r == decode(hash)
          IN  call' = IF r.ok
                      THEN [op |-> "decode", hash |-> hash, ok |-> TRUE,
                            box |-> r.box]
                      ELSE [op |-> "decode", hash |-> hash, ok |-> FALSE]
    /\ UNCHANGED <<bh, pushed, box1>>

\* neighbor(hash, direction).
CallNeighbor ==
    /\ Idle
    /\ \E hash \in Hashes, direction \in Directions :
          LET r == neighbor(hash, direction)
          IN  call' = IF r.ok
                      THEN [op |-> "neighbor", hash |-> hash,
                            direction |-> direction, ok |-> TRUE,
                            result |-> r.hash]
                      ELSE [op |-> "neighbor", hash |-> hash,
                            direction |-> direction, ok |-> FALSE]
    /\ UNCHANGED <<bh, pushed, box1>>

\* neighbors(hash).
CallNeighbors ==
    /\ Idle
    /\ \E hash \in Hashes :
          LET r == neighbors(hash)
          IN  call' = IF r.ok
                      THEN [op |-> "neighbors", hash |-> hash, ok |-> TRUE,
                            list |-> r.list]
                      ELSE [op |-> "neighbors", hash |-> hash, ok |-> FALSE]
    /\ UNCHANGED <<bh, pushed, box1>>

\* GeoLocation::from_coordinates(latitude, longitude).
CallFromCoordinates ==
    /\ Idle
    /\ \E latitude \in CoordinateInputs, longitude \in CoordinateInputs :
          LET r == GeoLocation_from_coordinates(latitude, longitude)
          IN  call' = IF r.ok
                      THEN [op |-> "GeoLocation::from_coordinates",
                            latitude |-> latitude, longitude |-> longitude,
                            ok |-> TRUE, l |-> r.l]
                      ELSE [op |-> "GeoLocation::from_coordinates",
                            latitude |-> latitude, longitude |-> longitude,
                            ok |-> FALSE]
    /\ UNCHANGED <<bh, pushed, box1>>

\* box1 = BoundingBox::from_coordinates(a, b, c, d).
BoxFromCoordinates ==
    /\ Idle
    /\ \E a \in BoxCoords, b \in BoxCoords, c \in BoxCoords, d \in BoxCoords :
          box1' = BoundingBox_from_coordinates(a, b, c, d)
    /\ UNCHANGED <<bh, pushed, call>>

\* box1 = BoundingBox::from_geolocations(p1, p2), the points struct literals.
BoxFromGeolocations ==
    /\ Idle
    /\ \E a \in BoxCoords, b \in BoxCoords, c \in BoxCoords, d \in BoxCoords :
          box1' = from_geolocations(GeoLocation(a, c), GeoLocation(b, d))
    /\ UNCHANGED <<bh, pushed, call>>

\* box1 = BoundingBox::merged(box1, box2), box2 from from_coordinates.
BoxMerged ==
    /\ Idle
    /\ \E a \in BoxCoords, b \in BoxCoords, c \in BoxCoords, d \in BoxCoords :
          box1' = merged(box1, BoundingBox_from_coordinates(a, b, c, d))
    /\ UNCHANGED <<bh, pushed, call>>

\* box1.merge_with(box2), box2 from from_geolocations.
BoxMergeWith ==
    /\ Idle
    /\ \E a \in BoxCoords, b \in BoxCoords, c \in BoxCoords, d \in BoxCoords :
          box1' = merge_with(box1, from_geolocations(GeoLocation(a, c),
                                                     GeoLocation(b, d)))
    /\ UNCHANGED <<bh, pushed, call>>

\* box1.contains(point).
CallContains ==
    /\ Idle
    /\ \E lat \in PointCoords, lon \in PointCoords :
          LET point == GeoLocation(lat, lon)
          IN  call' = [op |-> "contains", box |-> box1, point |-> point,
                       result |-> contains(box1, point)]
    /\ UNCHANGED <<bh, pushed, box1>>

\* merged on three boxes in both orders and both groupings, and
\* a.merge_with(b) on a copy of a.
CallMerged ==
    /\ Idle
    /\ \E a \in RawBoxes, b \in ExchangedBoxes, c \in NegatedBoxes :
          call' = [op |-> "merged", a |-> a, b |-> b, c |-> c,
                   ab |-> merged(a, b), ba |-> merged(b, a),
                   a_bc |-> merged(a, merged(b, c)),
                   ab_c |-> merged(merged(a, b), c),
                   a_with_b |-> merge_with(a, b)]
    /\ UNCHANGED <<bh, pushed, box1>>

NextPush == \E b \in BOOLEAN : Push(b)

NextBinary == CallFromString \/ CallDecodeString \/ CallBinaryEncode

NextCodec == CallEncode \/ CallDecode

NextNeighbor == CallNeighbor \/ CallNeighbors

NextLocation == CallFromCoordinates

NextBox ==
    \/ BoxFromCoordinates
    \/ BoxFromGeolocations
    \/ BoxMerged
    \/ BoxMergeWith
    \/ CallContains

NextMerge == CallMerged

NextEncode == CallEncode \/ CallBinaryEncode

\* A BinaryHash grown by pushes.
SpecPush == Init /\ [][NextPush]_vars

\* One call of from_string, decode_string or BinaryHash::encode.
SpecBinary == Init /\ [][NextBinary]_vars

\* One call of encode or decode.
SpecCodec == Init /\ [][NextCodec]_vars

\* One call of neighbor or neighbors.
SpecNeighbor == Init /\ [][NextNeighbor]_vars

\* One call of GeoLocation::from_coordinates.
SpecLocation == Init /\ [][NextLocation]_vars

\* A BoundingBox built by the constructors and grown by merges, and one
\* call of contains on it.
SpecBox == Init /\ [][NextBox]_vars

\* One call of either encoder, the base32 encode or BinaryHash::encode.
SpecEncode == Init /\ [][NextEncode]_vars

\* One round of merged and merge_with calls on three boxes.
SpecMerge == Init /\ [][NextMerge]_vars

----------------------------------------------------------------------------
(* Claims *)

\* C1: for every valid location p and every character precision n from 1 to
\* MaxChars, the box decode(encode(p, n)) is returned and contains p.
C1_DecodeOfEncodeContains ==
    (call.op = "encode" /\ call.precision >= 1) =>
        /\ GeoLocation_valid(call.l.latitude, call.l.longitude)
        /\ call.ok
        /\ contains(call.box, call.l)

\* A location strictly inside the cell of its longest hash.
C1_Witness ==
    /\ call.op = "encode"
    /\ call.precision = MaxChars
    /\ Len(call.hash) = MaxChars
    /\ call.ok
    /\ call.box.min_lat < call.l.latitude
    /\ call.l.latitude < call.box.max_lat
    /\ call.box.min_lon < call.l.longitude
    /\ call.l.longitude < call.box.max_lon
    /\ call.box.max_lat - call.box.min_lat < LAT_MAX

\* The box b moved by d[1] latitude ranges and d[2] longitude ranges.
C2_Moved(b, d) ==
    [min_lat |-> b.min_lat + d[1] * (b.max_lat - b.min_lat),
     max_lat |-> b.max_lat + d[1] * (b.max_lat - b.min_lat),
     min_lon |-> b.min_lon + d[2] * (b.max_lon - b.min_lon),
     max_lon |-> b.max_lon + d[2] * (b.max_lon - b.min_lon)]

\* The box b lies within [-90, 90] x [-180, 180].
C2_InWorld(b) ==
    /\ -LAT_MAX <= b.min_lat
    /\ b.max_lat <= LAT_MAX
    /\ -LON_MAX <= b.min_lon
    /\ b.max_lon <= LON_MAX

\* neighbor returned a hash as long as its argument whose cell is the cell
\* of the argument moved by the direction.
C2_ReturnsMovedCell ==
    /\ call.ok
    /\ Len(call.result) = Len(call.hash)
    /\ decode(call.result).ok
    /\ decode(call.result).box = C2_Moved(decode(call.hash).box, call.direction)

\* C2 as stated, for the hashes of at least one character: for every valid
\* hash and every direction, neighbor returns the hash of the moved cell.
C2_AlwaysReturnsMovedCell ==
    (call.op = "neighbor" /\ Len(call.hash) >= 1) => C2_ReturnsMovedCell

\* C2 as amended: neighbor returns the hash of the moved cell when the moved
\* cell lies within the world, and fails, returning no hash, when it does
\* not.
C2_MovedCellOrFailure ==
    call.op = "neighbor" =>
        IF C2_InWorld(C2_Moved(decode(call.hash).box, call.direction))
        THEN C2_ReturnsMovedCell
        ELSE ~call.ok /\ "result" \notin DOMAIN call

\* A diagonal neighbor of a cell of the longest hashes.
C2_Witness ==
    /\ call.op = "neighbor"
    /\ Len(call.hash) = MaxChars
    /\ call.direction = <<-1, 1>>
    /\ call.ok
    /\ call.result # call.hash
    /\ call.result[1] # call.hash[1]

\* The 32 symbols 0123456789bcdefghjkmnpqrstuvwxyz and their uppercase forms.
C3_Symbols ==
    (48..57) \cup ((98..122) \ {105, 108, 111}) \cup ((66..90) \ {73, 76, 79})

\* C3: decode fails and returns no box when the hash holds a character that
\* is not an alphabet symbol in either case; it returns a box for every
\* string of alphabet symbols.
C3_DecodeFailsExactlyOnInvalid ==
    call.op = "decode" =>
        IF \E i \in 1..Len(call.hash) : call.hash[i] \notin C3_Symbols
        THEN ~call.ok /\ "box" \notin DOMAIN call
        ELSE call.ok /\ "box" \in DOMAIN call

\* decode fails on a hash whose only invalid character is its last, 'a'.
C3_Witness ==
    /\ call.op = "decode"
    /\ Len(call.hash) = MaxChars
    /\ call.hash[MaxChars] = 97
    /\ \A i \in 1..(MaxChars - 1) : call.hash[i] \in C3_Symbols
    /\ ~call.ok

\* C4: the precision of a BinaryHash grown from the empty hash by pushes is
\* at most 64.
C4_PrecisionAtMost64 == bh.precision <= 64

\* C5: after the pushes of the bits pushed[1], ..., pushed[k] onto the empty
\* hash, k <= 64: len() is k, empty() holds exactly when k = 0, and test(n)
\* returns pushed[n + 1] for every n < k, in either build.
C5_TestReturnsPushedBits ==
    Len(pushed) <= 64 =>
        /\ len(bh) = Len(pushed)
        /\ empty(bh) <=> Len(pushed) = 0
        /\ \A n \in 0..(Len(pushed) - 1), checks \in BOOLEAN :
              /\ ~test_panics(bh, n, checks)
              /\ test(bh, n) = pushed[n + 1]

\* A full word whose first pushed bit, the only one, sits in the top bit.
C5_Witness ==
    /\ Len(pushed) = 64
    /\ pushed[1]
    /\ len(bh) = 64
    /\ test(bh, 0)
    /\ ~test(bh, 63)

\* The box inner lies within the box outer, on both axes.
C6_Within(inner, outer) ==
    /\ inner.min_lat >= outer.min_lat
    /\ inner.max_lat <= outer.max_lat
    /\ inner.min_lon >= outer.min_lon
    /\ inner.max_lon <= outer.max_lon

\* C6: for a valid location and bit precisions m <= n, the box of
\* BinaryHash::encode(p, n).decode() lies within the box of
\* BinaryHash::encode(p, m).decode().
C6_HigherPrecisionBoxWithinLower ==
    call.op = "BinaryHash::encode" =>
        /\ call.ok
        /\ \A m \in 0..call.precision :
              LET lower == BinaryHash_decode(BinaryHash_encode(call.l, m), TRUE)
              IN  lower.ok /\ C6_Within(call.box, lower.box)

\* The box of the largest precision, strictly within the box of one bit.
C6_Witness ==
    /\ call.op = "BinaryHash::encode"
    /\ call.precision = MaxPrecision
    /\ call.ok
    /\ LET lower == BinaryHash_decode(BinaryHash_encode(call.l, 1), TRUE).box
       IN  /\ C6_Within(call.box, lower)
           /\ call.box.min_lon > lower.min_lon
           /\ call.box.max_lon < lower.max_lon

\* C7: for a valid location p and a bit precision n >= 1,
\* BinaryHash::encode(p, n) holds exactly n bits and its decode() is
\* returned and contains p.
C7_BinaryEncodeHoldsNBitsAndContains ==
    (call.op = "BinaryHash::encode" /\ call.precision >= 1) =>
        /\ GeoLocation_valid(call.l.latitude, call.l.longitude)
        /\ len(call.bh) = call.precision
        /\ call.ok
        /\ contains(call.box, call.l)

\* A location on the world boundary in latitude (+90) and on the first
\* bisection midpoint in longitude (0), at the largest precision.
C7_Witness ==
    /\ call.op = "BinaryHash::encode"
    /\ call.precision = MaxPrecision
    /\ call.l.latitude = LAT_MAX
    /\ call.l.longitude = 0
    /\ len(call.bh) = MaxPrecision
    /\ call.box.max_lat = LAT_MAX
    /\ call.box.max_lon = 0
    /\ contains(call.box, call.l)

\* The order (d_lat, d_lon) in which neighbors lists the eight directions.
C8_Order ==
    << <<-1, -1>>, <<-1, 0>>, <<-1, 1>>, <<0, -1>>,
       <<0, 1>>, <<1, -1>>, <<1, 0>>, <<1, 1>> >>

\* C8: when the eight neighbor calls succeed, neighbors returns 9 strings:
\* the hash itself, then neighbor(hash, d) for d in the order C8_Order.
C8_NeighborsListsSelfThenEight ==
    call.op = "neighbors" =>
        ((\A i \in 1..8 : neighbor(call.hash, C8_Order[i]).ok) =>
            /\ call.ok
            /\ Len(call.list) = 9
            /\ call.list[1] = call.hash
            /\ \A i \in 1..8 :
                  call.list[i + 1] = neighbor(call.hash, C8_Order[i]).hash)

\* neighbors of an inner cell of the longest hashes: nine different hashes.
C8_Witness ==
    /\ call.op = "neighbors"
    /\ Len(call.hash) = MaxChars
    /\ call.ok
    /\ Cardinality({call.list[i] : i \in 1..9}) = 9

\* The string s holds only the characters '0' and '1'.
C9_Binary(s) == \A i \in 1..Len(s) : s[i] \in {48, 49}

\* C9: for a string s of at most 64 characters '0' and '1',
\* from_string(s).to_string() is s, as long as the precision of the hash.
C9_FromStringToStringIsIdentity ==
    (call.op = "from_string" /\ C9_Binary(call.s) /\ Len(call.s) <= 64) =>
        /\ call.ok
        /\ call.text.ok
        /\ call.text.s = call.s
        /\ Len(call.text.s) = call.bh.precision

\* A string of 64 characters, the first of them '1'.
C9_Witness ==
    /\ call.op = "from_string"
    /\ Len(call.s) = 64
    /\ call.s[1] = 49
    /\ call.ok
    /\ call.text.ok
    /\ call.text.s = call.s

\* C10: from_string(s) and decode_string(s) fail, and return nothing, when s
\* holds a character other than '0' and '1', wherever it stands.
C10_FailsOnOtherCharacter ==
    (call.op \in {"from_string", "decode_string"} /\ ~C9_Binary(call.s)) =>
        /\ ~call.ok
        /\ "bh" \notin DOMAIN call
        /\ "box" \notin DOMAIN call

\* decode_string fails on a string whose only other character is its last.
C10_Witness ==
    /\ call.op = "decode_string"
    /\ Len(call.s) = MaxShort
    /\ C9_Binary(SubSeq(call.s, 1, MaxShort - 1))
    /\ call.s[MaxShort] = 97
    /\ ~call.ok

----------------------------------------------------------------------------
\* A GeoLocation::from_coordinates call has been made.
C11_IsLocationCall == call.op = "GeoLocation::from_coordinates"

\* |x| > bound as f64 compares: never so for NaN.
C11_Beyond(x, bound) == x # NaN /\ (x > bound \/ x < -bound)

\* -bound <= x <= bound as f64 compares: never so for NaN.
C11_Within(x, bound) == x # NaN /\ -bound <= x /\ x <= bound

\* C11 as stated: GeoLocation::from_coordinates(lat, lon) fails if
\* |lat| > 90 or |lon| > 180 and otherwise returns a GeoLocation holding
\* exactly the given values.  A NaN coordinate is not greater than any
\* bound, and the call fails on it.
C11_ReturnsUnlessBeyondRange ==
    C11_IsLocationCall =>
        IF C11_Beyond(call.latitude, LAT_MAX)
           \/ C11_Beyond(call.longitude, LON_MAX)
        THEN ~call.ok
        ELSE /\ call.ok
             /\ call.l.latitude = call.latitude
             /\ call.l.longitude = call.longitude

\* C11, amended: GeoLocation::from_coordinates(lat, lon) returns a
\* GeoLocation holding exactly the given values when -90 <= lat <= 90 and
\* -180 <= lon <= 180 (the boundary values included), and fails, returning
\* no object, in every other case: |lat| > 90, |lon| > 180, or a coordinate
\* that is NaN.
C11_ReturnsExactlyWithinRange ==
    C11_IsLocationCall =>
        IF C11_Within(call.latitude, LAT_MAX)
           /\ C11_Within(call.longitude, LON_MAX)
        THEN /\ call.ok
             /\ call.l = [latitude |-> call.latitude,
                          longitude |-> call.longitude]
        ELSE /\ ~call.ok
             /\ DOMAIN call = {"op", "latitude", "longitude", "ok"}

\* A call on the boundary values -90 and 180 has returned.
C11_Witness ==
    /\ C11_IsLocationCall
    /\ call.latitude = -LAT_MAX
    /\ call.longitude = LON_MAX
    /\ call.ok

----------------------------------------------------------------------------
\* C12: the box built by from_coordinates or from_geolocations from
\* arguments in any order, and grown by any sequence of merged and
\* merge_with calls, has min_lat <= max_lat and min_lon <= max_lon.
C12_BoxIsOrdered ==
    /\ box1.min_lat <= box1.max_lat
    /\ box1.min_lon <= box1.max_lon

\* The box has been built and reaches from the least to the greatest
\* coordinate on both axes.
C12_Witness ==
    box1 = [min_lat |-> -MaxCoord, max_lat |-> MaxCoord,
            min_lon |-> -MaxCoord, max_lon |-> MaxCoord]

----------------------------------------------------------------------------
\* The least and the greatest of two numbers, said without Min and Max.
C13_Least(m, x, y) == m \in {x, y} /\ m <= x /\ m <= y

C13_Greatest(m, x, y) == m \in {x, y} /\ m >= x /\ m >= y

\* C13: merged(a, b) = merged(b, a), merged(a, merged(b, c)) =
\* merged(merged(a, b), c), and a.merge_with(b) leaves a equal to
\* merged(a, b): the least of the minimum bounds and the greatest of the
\* maximum bounds, field by field, for boxes of any field values.
C13_MergeIsCommutativeAssociative ==
    call.op = "merged" =>
        /\ call.ab = call.ba
        /\ call.a_bc = call.ab_c
        /\ call.a_with_b = call.ab
        /\ C13_Least(call.ab.min_lat, call.a.min_lat, call.b.min_lat)
        /\ C13_Least(call.ab.min_lon, call.a.min_lon, call.b.min_lon)
        /\ C13_Greatest(call.ab.max_lat, call.a.max_lat, call.b.max_lat)
        /\ C13_Greatest(call.ab.max_lon, call.a.max_lon, call.b.max_lon)

\* Three different boxes, a with its bounds out of order, b changing all
\* four bounds of a.
C13_Witness ==
    /\ call.op = "merged"
    /\ call.a.min_lat > call.a.max_lat
    /\ call.a # call.b /\ call.b # call.c /\ call.a # call.c
    /\ call.ab.min_lat # call.a.min_lat
    /\ call.ab.max_lat # call.a.max_lat
    /\ call.ab.min_lon # call.a.min_lon
    /\ call.ab.max_lon # call.a.max_lon

----------------------------------------------------------------------------
\* The point lies on one of the four edges of the box, corners included.
C14_OnEdge(b, p) ==
    \/ /\ p.latitude \in {b.min_lat, b.max_lat}
       /\ b.min_lon <= p.longitude /\ p.longitude <= b.max_lon
    \/ /\ p.longitude \in {b.min_lon, b.max_lon}
       /\ b.min_lat <= p.latitude /\ p.latitude <= b.max_lat

\* The latitude or the longitude of the point is outside its interval.
C14_Outside(b, p) ==
    \/ p.latitude < b.min_lat \/ p.latitude > b.max_lat
    \/ p.longitude < b.min_lon \/ p.longitude > b.max_lon

\* C14: contains(point) is true for every point on an edge or a corner of
\* the box and false for every point whose latitude or longitude is
\* strictly outside [min, max].
C14_ContainsIsInclusive ==
    call.op = "contains" =>
        /\ C14_OnEdge(call.box, call.point) => call.result
        /\ C14_Outside(call.box, call.point) => ~call.result

\* contains has answered true for the top right corner of a box that is
\* wider than a point.
C14_Witness ==
    /\ call.op = "contains"
    /\ call.box.min_lat < call.box.max_lat
    /\ call.box.min_lon < call.box.max_lon
    /\ call.point = [latitude |-> call.box.max_lat,
                     longitude |-> call.box.max_lon]
    /\ call.result

----------------------------------------------------------------------------
\* The value of the five bits 5i .. 5i+4 of h, the first the most
\* significant (i counts the characters from 0).
C15_Group(h, i) ==
    LET bit(j) == IF test(h, 5 * i + j) THEN 1 ELSE 0
    IN  16 * bit(0) + 8 * bit(1) + 4 * bit(2) + 2 * bit(3) + bit(4)

\* C15: for a valid location p and k characters, encode(p, k) has exactly k
\* characters, and its i-th character is the symbol of BASE32_CODES at the
\* value of the bits 5i .. 5i+4 of BinaryHash::encode(p, 5k).
C15_CharactersAreGroupsOfFiveBits ==
    call.op = "encode" =>
        LET h == BinaryHash_encode(call.l, 5 * call.precision)
        IN  /\ GeoLocation_valid(call.l.latitude, call.l.longitude)
            /\ len(h) = 5 * call.precision
            /\ Len(call.hash) = call.precision
            /\ \A i \in 0..(call.precision - 1) :
                  call.hash[i + 1] = BASE32_CODES[C15_Group(h, i) + 1]

\* A hash of the most characters whose characters differ: the groups of
\* five bits are told apart.
C15_Witness ==
    /\ call.op = "encode"
    /\ call.precision = MaxChars
    /\ Len(call.hash) = MaxChars
    /\ call.hash[1] # call.hash[MaxChars]
    /\ call.hash[1] = 119

----------------------------------------------------------------------------
\* The uppercase form of a character code: a lowercase letter moved to its
\* capital, any other character itself.
C16_Uppercase(c) == IF c >= 97 /\ c <= 122 THEN c - 32 ELSE c

\* The entry of the table for the character code c, '0' <= c <= 'z'.
C16_Entry(c) == BASE32_INDICES[c - 48 + 1]

\* C16: for every index i in 0..31 the table maps BASE32_CODES[i] and its
\* uppercase form to i, it maps every other code from '0' to 'z' to 0xFF,
\* and decode gives the same box for a valid hash and for its uppercase
\* spelling.
C16_TableInvertsAlphabet ==
    /\ Len(BASE32_CODES) = 32
    /\ DOMAIN BASE32_INDICES = 1..(122 - 48 + 1)
    /\ \A i \in 0..31 :
          /\ C16_Entry(BASE32_CODES[i + 1]) = i
          /\ C16_Entry(C16_Uppercase(BASE32_CODES[i + 1])) = i
    /\ \A c \in 48..122 :
          (\A i \in 0..31 : c \notin {BASE32_CODES[i + 1],
                                       C16_Uppercase(BASE32_CODES[i + 1])})
              => C16_Entry(c) = 255
    /\ (call.op = "decode" /\ call.ok) =>
          LET upper == decode([i \in 1..Len(call.hash) |->
                                  C16_Uppercase(call.hash[i])])
          IN  upper.ok /\ upper.box = call.box

\* decode has returned the box of "zw", all of whose characters change in
\* the uppercase spelling "ZW".
C16_Witness ==
    /\ call.op = "decode"
    /\ call.ok
    /\ Len(call.hash) >= 1
    /\ call.hash[1] = 122
    /\ \A i \in 1..Len(call.hash) : call.hash[i] \in {119, 122}
    /\ \E i \in 1..Len(call.hash) : call.hash[i] = 119
    /\ decode([i \in 1..Len(call.hash) |-> call.hash[i] - 32]).box = call.box

----------------------------------------------------------------------------
\* C17: for a valid location p and precisions m <= n, encode(p, m) is the
\* first m characters of encode(p, n), and BinaryHash::encode(p, m)
\* .to_string() is the first m bits of BinaryHash::encode(p, n).to_string().
C17_HashesArePrefixNested ==
    /\ call.op = "encode" =>
          \A m \in 0..call.precision :
              encode(call.l, m) = SubSeq(call.hash, 1, m)
    /\ call.op = "BinaryHash::encode" =>
          \A checks \in BOOLEAN :
              LET whole == to_string(call.bh, checks)
              IN  /\ whole.ok
                  /\ Len(whole.s) = call.precision
                  /\ \A m \in 0..call.precision :
                        LET part == to_string(BinaryHash_encode(call.l, m),
                                              checks)
                        IN  part.ok /\ part.s = SubSeq(whole.s, 1, m)

\* A BinaryHash of the largest precision whose text starts with '1' and
\* ends with '0', and whose first bit is the text of the one-bit hash.
C17_Witness ==
    /\ call.op = "BinaryHash::encode"
    /\ call.precision = MaxPrecision
    /\ LET whole == to_string(call.bh, TRUE)
       IN  /\ whole.ok
           /\ whole.s[1] = 49
           /\ whole.s[MaxPrecision] = 48
           /\ to_string(BinaryHash_encode(call.l, 1), TRUE).s = <<49>>

----------------------------------------------------------------------------
\* The hash folded to lowercase: each capital letter moved to its small
\* letter.
C18_Lowercase(hash) ==
    [i \in 1..Len(hash) |->
        IF hash[i] >= 65 /\ hash[i] <= 90 THEN hash[i] + 32 ELSE hash[i]]

\* neighbor(h, (0, 0)) has been called on a hash of at least one character.
C18_IsStayCall ==
    /\ call.op = "neighbor"
    /\ call.direction = <<0, 0>>
    /\ Len(call.hash) >= 1

\* encode(decode(h).center(), length of h) is h folded to lowercase.
C18_CentreEncodesToLowercase ==
    LET r == decode(call.hash)
    IN  /\ r.ok
        /\ encode(center(r.box), Len(call.hash)) = C18_Lowercase(call.hash)

\* C18 as stated: for a valid hash h, encode(decode(h).center(), length of
\* h) is h folded to lowercase, and neighbor(h, (0, 0)) returns h itself.
\* For a hash with a capital letter the hash returned is not h.
C18_StayReturnsHashItself ==
    C18_IsStayCall =>
        /\ C18_CentreEncodesToLowercase
        /\ call.ok
        /\ call.result = call.hash

\* C18, amended: for a valid hash h, encode(decode(h).center(), length of
\* h) is h folded to lowercase, and neighbor(h, (0, 0)) returns h folded to
\* lowercase: h itself exactly when h holds no capital letter.
C18_StayReturnsLowercaseHash ==
    C18_IsStayCall =>
        /\ C18_CentreEncodesToLowercase
        /\ call.ok
        /\ call.result = C18_Lowercase(call.hash)
        /\ (call.result = call.hash) <=>
              (\A i \in 1..Len(call.hash) :
                  ~(call.hash[i] >= 65 /\ call.hash[i] <= 90))

\* neighbor(h, (0, 0)) has returned for a hash of the most characters that
\* ends with a capital letter.
C18_Witness ==
    /\ C18_IsStayCall
    /\ Len(call.hash) = MaxChars
    /\ call.hash[MaxChars] >= 65 /\ call.hash[MaxChars] <= 90
    /\ call.ok
    /\ Len(call.result) = MaxChars

====
